---- MODULE Spec2Model ----
(***************************************************************************)
(* A model of producers/models/station.py: the Station producer of the CTA *)
(* transit simulation.  Station derives its topic name from the station    *)
(* name, registers itself as a Producer for that topic, notes the train    *)
(* last seen in each direction and produces one arrival event per arrival. *)
(*                                                                         *)
(* Station extends models.producer.Producer and owns a models.Turnstile;   *)
(* neither file is part of the sources at hand, so their behaviour         *)
(* (topic registry, produce, close) is modelled from the specification     *)
(* and marked as such where it is defined.                                 *)
(***************************************************************************)
EXTENDS Integers, Sequences, FiniteSets, TLC

\* ------------------------------------------------------------------ bounds
NumStations == 2      \* station objects under construction at the same time
MaxLen == 2           \* longest station name drawn from Alphabet
MaxEvents == 2        \* arrival calls the driver issues per run

Slots == 1..NumStations

\* ----------------------------------------------------------- Python values
\* A Python value with its dynamic type, as far as the schema check reads it.
PyNone == [t |-> "NoneType"]
PyInt(n) == [t |-> "int", v |-> n]
PyStr(s) == [t |-> "str", v |-> s]

\* ------------------------------------------------------------ station name
\* Strings the code transforms are sequences of one-character strings.
UpperCase == <<"A","B","C","D","E","F","G","H","I","J","K","L","M",
               "N","O","P","Q","R","S","T","U","V","W","X","Y","Z">>
LowerCase == <<"a","b","c","d","e","f","g","h","i","j","k","l","m",
               "n","o","p","q","r","s","t","u","v","w","x","y","z">>

\* str.lower() on one character.
LowerChar(c) ==
    IF \E i \in 1..Len(UpperCase) : UpperCase[i] = c
    THEN LowerCase[CHOOSE i \in 1..Len(UpperCase) : UpperCase[i] = c]
    ELSE c

\* str.lower(): every cased character is lowered, the length is kept.
Lower(s) == [i \in 1..Len(s) |-> LowerChar(s[i])]

\* str.replace(old, new) for a one-character `old`: one pass, left to right,
\* over the string as it is when the call is made.
RECURSIVE Replace(_, _, _)
Replace(s, old, new) ==
    IF s = <<>> THEN <<>>
    ELSE (IF Head(s) = old THEN new ELSE <<Head(s)>>) \o Replace(Tail(s), old, new)

\* The four chained replace calls of Station.__init__, in the code's order.
\* Variant: the replace of "-" is left out.
StationNameNoDash(n) ==
    Replace(Replace(Replace(Lower(n),
        "/", <<"_","a","n","d","_">>), " ", <<"_">>), "'", <<>>)

\* station_name, lines 33-39.
StationName(n) ==
    Replace(Replace(Replace(Replace(Lower(n),
        "/", <<"_","a","n","d","_">>), " ", <<"_">>), "-", <<"_">>), "'", <<>>)

TopicPrefix ==
    <<"o","r","g",".","c","h","i","c","a","g","o",".","c","t","a",".",
      "s","t","a","t","i","o","n",".">>
TopicSuffix == <<".","a","r","r","i","v","a","l",".","v","1">>

\* Variant: the name is not lowered.
TopicNameNoLower(n) ==
    TopicPrefix \o Replace(Replace(Replace(Replace(n,
        "/", <<"_","a","n","d","_">>), " ", <<"_">>), "-", <<"_">>), "'", <<>>)
    \o TopicSuffix

\* topic_name, line 41: f'org.chicago.cta.station.{station_name}.arrival.v1'
TopicName(n) == TopicPrefix \o StationName(n) \o TopicSuffix

\* ------------------------------------------------------------------ inputs
Alphabet == {"B", "b", "/", " ", "-", "'", "_"}

RECURSIVE SeqsUpTo(_)
SeqsUpTo(k) ==
    IF k = 0 THEN {<<>>}
    ELSE LET shorter == SeqsUpTo(k - 1)
         IN  shorter \cup {Append(s, c) : s \in shorter, c \in Alphabet}

ExampleName ==
    <<"B","e","l","m","o","n","t","-","W","i","l","s","o","n","'","s","/",
      "N","o","r","t","h">>
ExampleSuffix ==
    <<"b","e","l","m","o","n","t","_","w","i","l","s","o","n","s","_","a","n","d","_",
      "n","o","r","t","h">>

\* Every name the naming specification constructs a station with.
AllNames == SeqsUpTo(MaxLen) \cup {ExampleName}

\* Constructor arguments of the stations the simulation builds: station_id, name,
\* color (an enum member, read through .name) and the neighbouring stations
\* direction_a / direction_b (objects read through .name, or None).
Red == [t |-> "color", name |-> "RED"]
Blue == [t |-> "color", name |-> "BLUE"]
Obj(n) == [t |-> "station", name |-> n]

Row(id, n, c, da, db) ==
    [station_id |-> id, name |-> n, color |-> c, direction_a |-> da, direction_b |-> db]

StationRows ==
    { Row(PyInt(41380), <<"B","-","b">>, Red, Obj(<<"H","o","w","a","r","d">>), PyNone),
      Row(PyInt(40380), <<"b"," ","b">>, Blue, PyNone, Obj(<<"L","o","o","p">>)),
      Row(PyInt(40900), <<"O","'","H","/","c">>, Blue, Obj(<<"H","o","w","a","r","d">>), Obj(<<"L","o","o","p">>)) }

\* The rows of the naming specification: any name, the other arguments fixed.
NameRows == {Row(PyInt(41380), n, Red, PyNone, PyNone) : n \in AllNames}

NoArgs == [t |-> "NoneType"]

Train(id) == [t |-> "train", train_id |-> id]
Trains == {Train(<<"T","1">>), Train(<<"T","2">>)}
Statuses == {"in_service", "out_of_service"}

PrevStationIds == {PyInt(40380), PyNone}
PrevDirections == {PyStr("b"), PyNone}

\* Station.key_schema / Station.value_schema: the fields each schema requires,
\* with their types (the schema files are read from the specification).
KeySchema == [timestamp |-> "int"]
ValueSchema ==
    [station_id |-> "int", train_id |-> "str", direction |-> "str", line |-> "str",
     train_status |-> "str", prev_station_id |-> "int", prev_direction |-> "str"]

\* ------------------------------------------------------------------- state
VARIABLES
    pc,               \* where each station's caller stands
    args,             \* constructor arguments of a construction in progress
    name,             \* Station.name
    topic_name,       \* Producer.topic_name, as Station.__init__ passes it
    station_id,       \* Station.station_id
    color,            \* Station.color
    dir_a, dir_b,     \* Station.dir_a, Station.dir_b
    a_train, b_train, \* Station.a_train, Station.b_train
    turnstile,        \* Station.turnstile: "none", "open" or "closed"
    producer,         \* Producer.producer, the broker client: "none", "open", "closed"
    existing_topics,  \* Producer.existing_topics, shared by every producer
    create_requests,  \* topic creation requests that reached the broker, in order
    sent,             \* messages handed to the broker client's send path, in order
    teardowns,        \* broker-level teardowns of each station's client
    call,             \* arguments of the arrival call in progress
    error,            \* what each station's last call raised ("none": it returned)
    close_trace,      \* the close steps the current or last close() invoked
    status,           \* train.status.name of every train
    last_pub,         \* per direction: the train of the last publish since the last arrival
    calls,            \* arrival calls issued so far
    declared,         \* the schemas each producer was declared with (lines 44-45)
    reply,            \* the broker's answer to the creation request of a construction
    buffered,         \* messages each client has accepted and not yet delivered
    shown,            \* the last string form a reader of each station got
    last_arrival,     \* per direction: the train of the last arrive_* call
    returned          \* arrival calls that returned without raising

stationVars == <<name, topic_name, station_id, color, dir_a, dir_b, a_train, b_train, turnstile>>
producerVars == <<producer, existing_topics, create_requests, sent, teardowns>>
callVars == <<call, error, close_trace, status, last_pub, calls>>
moreVars == <<declared, reply, buffered, shown, last_arrival, returned>>
vars == <<pc, args, stationVars, producerVars, callVars, moreVars>>

NoCall == [t |-> "NoneType"]
NoPub == [a |-> PyNone, b |-> PyNone]
NoSchemas == [t |-> "NoneType"]

Init ==
    /\ pc = [s \in Slots |-> "new"]
    /\ args = [s \in Slots |-> NoArgs]
    /\ name = [s \in Slots |-> <<>>]
    /\ topic_name = [s \in Slots |-> <<>>]
    /\ station_id = [s \in Slots |-> PyNone]
    /\ color = [s \in Slots |-> PyNone]
    /\ dir_a = [s \in Slots |-> PyNone]
    /\ dir_b = [s \in Slots |-> PyNone]
    /\ a_train = [s \in Slots |-> PyNone]
    /\ b_train = [s \in Slots |-> PyNone]
    /\ turnstile = [s \in Slots |-> "none"]
    /\ producer = [s \in Slots |-> "none"]
    /\ existing_topics = {}
    /\ create_requests = <<>>
    /\ sent = <<>>
    /\ teardowns = [s \in Slots |-> 0]
    /\ call = [s \in Slots |-> NoCall]
    /\ error = [s \in Slots |-> "none"]
    /\ close_trace = [s \in Slots |-> <<>>]
    /\ status = [tr \in Trains |-> "in_service"]
    /\ last_pub = [s \in Slots |-> NoPub]
    /\ calls = 0
    /\ declared = [s \in Slots |-> NoSchemas]
    /\ reply = [s \in Slots |-> "none"]
    /\ buffered = [s \in Slots |-> 0]
    /\ shown = [s \in Slots |-> <<>>]
    /\ last_arrival = [s \in Slots |-> NoPub]
    /\ returned = 0

\* ----------------------------------------------------------- construction
\* Variant: Producer.__init__ is not called.
StationInitNoSuper(s, row) ==
    /\ pc[s] = "new"
    /\ args' = [args EXCEPT ![s] = row]
    /\ name' = [name EXCEPT ![s] = row.name]
    /\ topic_name' = [topic_name EXCEPT ![s] = TopicName(row.name)]
    /\ pc' = [pc EXCEPT ![s] = "fields"]
    /\ UNCHANGED <<station_id, color, dir_a, dir_b, a_train, b_train, turnstile,
                   producerVars, callVars, moreVars>>

\* Station.__init__, lines 32-48: the name is kept, the topic name derived, and
\* Producer.__init__ is called with it and with the schemas of the class.
StationInitName(s, row) ==
    /\ pc[s] = "new"
    /\ args' = [args EXCEPT ![s] = row]
    /\ name' = [name EXCEPT ![s] = row.name]
    /\ topic_name' = [topic_name EXCEPT ![s] = TopicName(row.name)]
    /\ pc' = [pc EXCEPT ![s] = "super"]
    /\ UNCHANGED <<station_id, color, dir_a, dir_b, a_train, b_train, turnstile,
                   producerVars, callVars>>
    /\ declared' = [declared EXCEPT ![s] =
                       [key_schema |-> KeySchema, value_schema |-> ValueSchema]]
    /\ UNCHANGED <<reply, buffered, shown, last_arrival, returned>>

\* Variant: the registry is checked and the name is not inserted.
EnsureNoInsert(s) ==
    /\ pc[s] = "super"
    /\ pc' = [pc EXCEPT ![s] =
                IF topic_name[s] \in existing_topics THEN "fields" ELSE "create"]
    /\ UNCHANGED <<args, stationVars, producerVars, callVars>>
    /\ UNCHANGED moreVars

\* Producer.__init__ (modelled from the specification): the registry of created
\* topics is checked and the name inserted in one atomic step, before any
\* network call; only the caller that inserted the name goes on to create it.
EnsureChannelExists(s) ==
    /\ pc[s] = "super"
    /\ IF topic_name[s] \in existing_topics
       THEN /\ pc' = [pc EXCEPT ![s] = "fields"]
            /\ UNCHANGED existing_topics
       ELSE /\ pc' = [pc EXCEPT ![s] = "create"]
            /\ existing_topics' = existing_topics \cup {topic_name[s]}
    /\ UNCHANGED <<args, stationVars, producer, create_requests, sent, teardowns, callVars>>
    /\ UNCHANGED moreVars

\* The creation request of the caller that inserted the name reaches the broker
\* (modelled from the specification; num_partitions = 1, num_replicas = 1).  The
\* broker creates the topic, reports that it exists already, which is as good,
\* or rejects the request: ChannelCreationError then leaves Producer.__init__ and,
\* Station.__init__ having no handler, the construction.  Nothing is retried.
CreateTopic(s) ==
    /\ pc[s] = "create"
    /\ create_requests' = Append(create_requests, topic_name[s])
    /\ \E answer \in {"created", "already_exists", "rejected"} :
          /\ reply' = [reply EXCEPT ![s] = answer]
          /\ IF answer = "rejected"
             THEN /\ error' = [error EXCEPT ![s] = "ChannelCreationError"]
                  /\ pc' = [pc EXCEPT ![s] = "failed"]
             ELSE /\ UNCHANGED error
                  /\ pc' = [pc EXCEPT ![s] = "fields"]
    /\ UNCHANGED <<args, stationVars, producer, existing_topics, sent, teardowns,
                   call, close_trace, status, last_pub, calls>>
    /\ UNCHANGED <<declared, buffered, shown, last_arrival, returned>>

\* Variant: the constructor goes on after a rejected creation.
StationInitFieldsAnyway(s) ==
    /\ pc[s] \in {"fields", "failed"}
    /\ producer' = [producer EXCEPT ![s] = "open"]
    /\ station_id' = [station_id EXCEPT ![s] = args[s].station_id]
    /\ color' = [color EXCEPT ![s] = args[s].color]
    /\ dir_a' = [dir_a EXCEPT ![s] = args[s].direction_a]
    /\ dir_b' = [dir_b EXCEPT ![s] = args[s].direction_b]
    /\ a_train' = [a_train EXCEPT ![s] = PyNone]
    /\ b_train' = [b_train EXCEPT ![s] = PyNone]
    /\ turnstile' = [turnstile EXCEPT ![s] = "open"]
    /\ args' = [args EXCEPT ![s] = NoArgs]
    /\ pc' = [pc EXCEPT ![s] = "idle"]
    /\ reply' = [reply EXCEPT ![s] = "none"]
    /\ UNCHANGED <<name, topic_name, existing_topics, create_requests, sent, teardowns,
                   callVars, declared, buffered, shown, last_arrival, returned>>

\* The end of Producer.__init__ (the broker client is there) and lines 50-56 of
\* Station.__init__: the fields are set, both directions are empty, and the
\* station owns a new turnstile.
StationInitFields(s) ==
    /\ pc[s] = "fields"
    /\ producer' = [producer EXCEPT ![s] = "open"]
    /\ station_id' = [station_id EXCEPT ![s] = args[s].station_id]
    /\ color' = [color EXCEPT ![s] = args[s].color]
    /\ dir_a' = [dir_a EXCEPT ![s] = args[s].direction_a]
    /\ dir_b' = [dir_b EXCEPT ![s] = args[s].direction_b]
    /\ a_train' = [a_train EXCEPT ![s] = PyNone]
    /\ b_train' = [b_train EXCEPT ![s] = PyNone]
    /\ turnstile' = [turnstile EXCEPT ![s] = "open"]
    /\ args' = [args EXCEPT ![s] = NoArgs]
    /\ pc' = [pc EXCEPT ![s] = "idle"]
    /\ UNCHANGED <<name, topic_name, existing_topics, create_requests, sent, teardowns,
                   callVars>>
    /\ reply' = [reply EXCEPT ![s] = "none"]
    /\ UNCHANGED <<declared, buffered, shown, last_arrival, returned>>

\* ---------------------------------------------------------------- __str__
RECURSIVE Spaces(_)
Spaces(k) == IF k <= 0 THEN <<>> ELSE <<" ">> \o Spaces(k - 1)

\* '{:^w}': centred, the odd space on the right; a longer text is not cut.
Center(text, w) ==
    LET pad == IF Len(text) >= w THEN 0 ELSE w - Len(text)
        left == pad \div 2
    IN  Spaces(left) \o text \o Spaces(pad - left)

\* '{:<w}': left-aligned; a longer text is not cut.
LeftAlign(text, w) == text \o Spaces(w - Len(text))

DigitChars == <<"0","1","2","3","4","5","6","7","8","9">>

\* The decimal text of a non-negative int, as format() writes it.
RECURSIVE IntText(_)
IntText(n) ==
    IF n < 10 THEN <<DigitChars[n + 1]>>
    ELSE IntText(n \div 10) \o <<DigitChars[(n % 10) + 1]>>

Sentinel == <<"-","-","-">>

\* The text of one direction's train: "x.train_id if x is not None else '---'".
TrainText(tr) == IF tr # PyNone THEN tr.train_id ELSE Sentinel
\* The text of one direction's neighbour: "d.name if d is not None else '---'".
DirText(d) == IF d # PyNone THEN d.name ELSE Sentinel

\* Station.__str__ of a constructed station.
Describe(s) ==
    <<"S","t","a","t","i","o","n"," ","|"," ">> \o Center(IntText(station_id[s].v), 5)
    \o <<" ","|"," ">> \o LeftAlign(name[s], 30)
    \o <<" ","|"," ","D","i","r","e","c","t","i","o","n"," ","A",":"," ","|"," ">> \o Center(TrainText(a_train[s]), 5)
    \o <<" ","|"," ","d","e","p","a","r","t","i","n","g"," ","t","o"," ">> \o LeftAlign(DirText(dir_a[s]), 30)
    \o <<" ","|"," ","D","i","r","e","c","t","i","o","n"," ","B",":"," ","|"," ">> \o Center(TrainText(b_train[s]), 5)
    \o <<" ","|"," ","d","e","p","a","r","t","i","n","g"," ","t","o"," ">> \o LeftAlign(DirText(dir_b[s]), 30)
    \o <<" ","|"," ">>

\* ---------------------------------------------------------------- arrivals
\* A mapping conforms to a schema when it has exactly the schema's fields, each
\* of the schema's type (modelled from the specification).
Conforms(m, schema) ==
    /\ DOMAIN m = DOMAIN schema
    /\ \A f \in DOMAIN schema : m[f].t = schema[f]

\* asdict(TimestampKeyDto(self.time_millis())): an int of whatever value.
ArrivalKey == [timestamp |-> [t |-> "int"]]

\* Variant: station_id and prev_station_id change places.
ArrivalValueSwapped(s) ==
    [station_id |-> call[s].prev_station_id,
     train_id |-> PyStr(call[s].train.train_id),
     direction |-> PyStr(call[s].direction),
     line |-> PyStr(color[s].name),
     train_status |-> PyStr(status[call[s].train]),
     prev_station_id |-> station_id[s],
     prev_direction |-> call[s].prev_direction]

\* asdict(StationArrivalDto(...)) as Station.run fills it for the call in progress.
ArrivalValue(s) ==
    [station_id |-> station_id[s],
     train_id |-> PyStr(call[s].train.train_id),
     direction |-> PyStr(call[s].direction),
     line |-> PyStr(color[s].name),
     train_status |-> PyStr(status[call[s].train]),
     prev_station_id |-> call[s].prev_station_id,
     prev_direction |-> call[s].prev_direction]

\* Variant: the two schemas change places in the produce call.
ArrivalMessageSwapped(s) ==
    [topic |-> topic_name[s], key |-> ArrivalKey, value |-> ArrivalValue(s),
     value_schema |-> KeySchema, key_schema |-> ValueSchema]

\* The message Station.run hands to self.producer.produce.
ArrivalMessage(s) ==
    [topic |-> topic_name[s], key |-> ArrivalKey, value |-> ArrivalValue(s),
     value_schema |-> ValueSchema, key_schema |-> KeySchema]

\* producer.produce (modelled from the specification): key and value are encoded
\* against their schemas first; only a conforming message reaches the send path.
Produce(msg) ==
    IF Conforms(msg.key, msg.key_schema) /\ Conforms(msg.value, msg.value_schema)
    THEN "sent"
    ELSE "SchemaValidationError"

\* The simulation driver works on one station call at a time.
DriverIdle == \A s \in Slots : pc[s] \notin {"run", "close_turnstile", "close_producer"}

\* The arrival call in progress: its arguments, and what the caller saw before it.
Call(s, train, direction, prev_station_id, prev_direction) ==
    [train |-> train, direction |-> direction,
     prev_station_id |-> prev_station_id, prev_direction |-> prev_direction,
     status_at_call |-> status[train], before |-> Describe(s)]

\* Variant: arrive_a notes the train in direction B.
ArriveASetsB(s, train, prev_station_id, prev_direction) ==
    /\ pc[s] = "idle" /\ DriverIdle /\ producer[s] = "open" /\ calls < MaxEvents
    /\ b_train' = [b_train EXCEPT ![s] = train]
    /\ call' = [call EXCEPT ![s] = Call(s, train, "a", prev_station_id, prev_direction)]
    /\ error' = [error EXCEPT ![s] = "none"]
    /\ last_pub' = [last_pub EXCEPT ![s].a = PyNone]
    /\ calls' = calls + 1
    /\ pc' = [pc EXCEPT ![s] = "run"]
    /\ UNCHANGED <<args, name, topic_name, station_id, color, dir_a, dir_b, a_train,
                   turnstile, producerVars, close_trace, status>>
    /\ last_arrival' = [last_arrival EXCEPT ![s].a = train]
    /\ UNCHANGED <<declared, reply, buffered, shown, returned>>

\* Variant: arrive_a calls run before the train is noted.
ArriveALate(s, train, prev_station_id, prev_direction) ==
    /\ pc[s] = "idle" /\ DriverIdle /\ producer[s] = "open" /\ calls < MaxEvents
    /\ call' = [call EXCEPT ![s] = Call(s, train, "a", prev_station_id, prev_direction)]
    /\ error' = [error EXCEPT ![s] = "none"]
    /\ last_pub' = [last_pub EXCEPT ![s].a = PyNone]
    /\ calls' = calls + 1
    /\ pc' = [pc EXCEPT ![s] = "run"]
    /\ UNCHANGED <<args, stationVars, producerVars, close_trace, status>>
    /\ last_arrival' = [last_arrival EXCEPT ![s].a = train]
    /\ UNCHANGED <<declared, reply, buffered, shown, returned>>

\* Station.arrive_a, line 95: the train is noted; the call of run is next.
ArriveA(s, train, prev_station_id, prev_direction) ==
    /\ pc[s] = "idle" /\ DriverIdle /\ producer[s] = "open" /\ calls < MaxEvents
    /\ a_train' = [a_train EXCEPT ![s] = train]
    /\ call' = [call EXCEPT ![s] = Call(s, train, "a", prev_station_id, prev_direction)]
    /\ error' = [error EXCEPT ![s] = "none"]
    /\ last_pub' = [last_pub EXCEPT ![s].a = PyNone]
    /\ calls' = calls + 1
    /\ pc' = [pc EXCEPT ![s] = "run"]
    /\ UNCHANGED <<args, name, topic_name, station_id, color, dir_a, dir_b, b_train,
                   turnstile, producerVars, close_trace, status>>
    /\ last_arrival' = [last_arrival EXCEPT ![s].a = train]
    /\ UNCHANGED <<declared, reply, buffered, shown, returned>>

\* Station.arrive_b, line 100.
ArriveB(s, train, prev_station_id, prev_direction) ==
    /\ pc[s] = "idle" /\ DriverIdle /\ producer[s] = "open" /\ calls < MaxEvents
    /\ b_train' = [b_train EXCEPT ![s] = train]
    /\ call' = [call EXCEPT ![s] = Call(s, train, "b", prev_station_id, prev_direction)]
    /\ error' = [error EXCEPT ![s] = "none"]
    /\ last_pub' = [last_pub EXCEPT ![s].b = PyNone]
    /\ calls' = calls + 1
    /\ pc' = [pc EXCEPT ![s] = "run"]
    /\ UNCHANGED <<args, name, topic_name, station_id, color, dir_a, dir_b, a_train,
                   turnstile, producerVars, close_trace, status>>
    /\ last_arrival' = [last_arrival EXCEPT ![s].b = train]
    /\ UNCHANGED <<declared, reply, buffered, shown, returned>>

\* Variant: when produce raises, run takes the train of the call out again.
RunRollsBack(s) ==
    /\ pc[s] = "run"
    /\ IF Produce(ArrivalMessage(s)) = "sent"
       THEN /\ sent' = Append(sent, ArrivalMessage(s))
            /\ last_pub' = [last_pub EXCEPT ![s][call[s].direction] = call[s].train]
            /\ returned' = returned + 1
            /\ buffered' = [buffered EXCEPT ![s] = @ + 1]
            /\ UNCHANGED <<error, a_train, b_train>>
       ELSE /\ error' = [error EXCEPT ![s] = Produce(ArrivalMessage(s))]
            /\ a_train' = [a_train EXCEPT ![s] =
                              IF call[s].direction = "a" THEN PyNone ELSE @]
            /\ b_train' = [b_train EXCEPT ![s] =
                              IF call[s].direction = "b" THEN PyNone ELSE @]
            /\ UNCHANGED <<sent, last_pub, returned, buffered>>
    /\ call' = [call EXCEPT ![s] = NoCall]
    /\ pc' = [pc EXCEPT ![s] = "idle"]
    /\ UNCHANGED <<args, name, topic_name, station_id, color, dir_a, dir_b, turnstile,
                   producer, existing_topics, create_requests, teardowns, close_trace,
                   status, calls, declared, reply, shown, last_arrival>>

\* Variant: run sends whatever the validation says and raises nothing.
RunSwallows(s) ==
    /\ pc[s] = "run"
    /\ sent' = Append(sent, ArrivalMessage(s))
    /\ last_pub' = [last_pub EXCEPT ![s][call[s].direction] = call[s].train]
    /\ returned' = returned + 1
    /\ buffered' = [buffered EXCEPT ![s] = @ + 1]
    /\ UNCHANGED error
    /\ call' = [call EXCEPT ![s] = NoCall]
    /\ pc' = [pc EXCEPT ![s] = "idle"]
    /\ UNCHANGED <<args, stationVars, producer, existing_topics, create_requests,
                   teardowns, close_trace, status, calls>>
    /\ UNCHANGED <<declared, reply, shown, last_arrival>>

\* Station.run, lines 61-78, called by arrive_a / arrive_b: the value and the key
\* are built and produced; what produce raises reaches the caller of arrive_*.
Run(s) ==
    /\ pc[s] = "run"
    /\ IF Produce(ArrivalMessage(s)) = "sent"
       THEN /\ sent' = Append(sent, ArrivalMessage(s))
            /\ last_pub' = [last_pub EXCEPT ![s][call[s].direction] = call[s].train]
            /\ returned' = returned + 1
            /\ buffered' = [buffered EXCEPT ![s] = @ + 1]
            /\ UNCHANGED error
       ELSE /\ error' = [error EXCEPT ![s] = Produce(ArrivalMessage(s))]
            /\ UNCHANGED <<sent, last_pub, returned, buffered>>
    /\ call' = [call EXCEPT ![s] = NoCall]
    /\ pc' = [pc EXCEPT ![s] = "idle"]
    /\ UNCHANGED <<args, stationVars, producer, existing_topics, create_requests,
                   teardowns, close_trace, status, calls>>
    /\ UNCHANGED <<declared, reply, shown, last_arrival>>

\* The driver changes a train's status between station calls.
SetStatus(train, st) ==
    /\ DriverIdle
    /\ \E s \in Slots : pc[s] = "idle"
    /\ status[train] # st
    /\ status' = [status EXCEPT ![train] = st]
    /\ UNCHANGED <<pc, args, stationVars, producerVars, call, error, close_trace,
                   last_pub, calls>>
    /\ UNCHANGED moreVars

\* ------------------------------------------------------------------- close
\* Variant: close goes to the producer's close without closing the turnstile.
CloseProducerFirst(s) ==
    /\ pc[s] = "idle" /\ DriverIdle
    /\ close_trace' = [close_trace EXCEPT ![s] = <<>>]
    /\ error' = [error EXCEPT ![s] = "none"]
    /\ pc' = [pc EXCEPT ![s] = "close_producer"]
    /\ UNCHANGED <<args, stationVars, producerVars, call, status, last_pub, calls>>
    /\ UNCHANGED moreVars

\* Station.close is entered: turnstile.close() (line 105) is next.
Close(s) ==
    /\ pc[s] = "idle" /\ DriverIdle
    /\ close_trace' = [close_trace EXCEPT ![s] = <<>>]
    /\ error' = [error EXCEPT ![s] = "none"]
    /\ pc' = [pc EXCEPT ![s] = "close_turnstile"]
    /\ UNCHANGED <<args, stationVars, producerVars, call, status, last_pub, calls>>
    /\ UNCHANGED moreVars

Step(what, ok) == [step |-> what, ok |-> ok]

\* Line 105, self.turnstile.close().  Turnstile.close is modelled from the
\* specification: closing a closed turnstile does nothing; closing an open one
\* may fail with CloseError, leaving it open or closed.  Station.close has no
\* handler: a failure leaves close() at once and line 106 is not reached.
CloseTurnstile(s) ==
    /\ pc[s] = "close_turnstile"
    /\ \/ /\ turnstile' = [turnstile EXCEPT ![s] = "closed"]
          /\ close_trace' = [close_trace EXCEPT ![s] = Append(@, Step("turnstile", TRUE))]
          /\ pc' = [pc EXCEPT ![s] = "close_producer"]
          /\ UNCHANGED error
       \/ /\ turnstile[s] = "open"
          /\ \E after \in {"open", "closed"} :
                turnstile' = [turnstile EXCEPT ![s] = after]
          /\ close_trace' = [close_trace EXCEPT ![s] = Append(@, Step("turnstile", FALSE))]
          /\ error' = [error EXCEPT ![s] = "CloseError"]
          /\ pc' = [pc EXCEPT ![s] = "idle"]
    /\ UNCHANGED <<args, name, topic_name, station_id, color, dir_a, dir_b, a_train,
                   b_train, producerVars, call, status, last_pub, calls>>
    /\ UNCHANGED moreVars

\* Variant: every close tears the client down.
TeardownAlways(s) == 1

\* Producer.close (modelled from the specification): the broker-level teardowns
\* one close adds: one for an open client, none for a closed one.
Teardown(s) == IF producer[s] = "closed" THEN 0 ELSE 1

\* Line 106, super().close().  Producer.close is modelled from the
\* specification: an open client is flushed and released, and released also when
\* the flush fails with CloseError; a closed client is left alone.  A flush
\* that succeeds has delivered what the client had buffered.
CloseProducer(s) ==
    /\ pc[s] = "close_producer"
    /\ teardowns' = [teardowns EXCEPT ![s] = @ + Teardown(s)]
    /\ producer' = [producer EXCEPT ![s] = "closed"]
    /\ \E ok \in BOOLEAN :
          /\ ok \/ Teardown(s) = 1
          /\ close_trace' = [close_trace EXCEPT ![s] = Append(@, Step("producer", ok))]
          /\ error' = [error EXCEPT ![s] = IF ok THEN error[s] ELSE "CloseError"]
          /\ buffered' = [buffered EXCEPT ![s] =
                              IF ok /\ Teardown(s) = 1 THEN 0 ELSE buffered[s]]
    /\ pc' = [pc EXCEPT ![s] = "idle"]
    /\ UNCHANGED <<args, stationVars, existing_topics, create_requests, sent, call,
                   status, last_pub, calls>>
    /\ UNCHANGED <<declared, reply, shown, last_arrival, returned>>

\* The broker client's delivery worker (modelled from the specification): an
\* open client delivers a buffered message whenever it gets to it.
Deliver(s) ==
    /\ producer[s] = "open"
    /\ buffered[s] > 0
    /\ buffered' = [buffered EXCEPT ![s] = @ - 1]
    /\ UNCHANGED <<pc, args, stationVars, producerVars, callVars>>
    /\ UNCHANGED <<declared, reply, shown, last_arrival, returned>>

\* A station that has been constructed: its fields are there to be read.
Constructed(s) == pc[s] \in {"idle", "run", "close_turnstile", "close_producer"}

\* Variant: taking the string form empties direction A.
StrConsumes(s) ==
    /\ Constructed(s)
    /\ shown' = [shown EXCEPT ![s] = Describe(s)]
    /\ a_train' = [a_train EXCEPT ![s] = PyNone]
    /\ UNCHANGED <<pc, args, name, topic_name, station_id, color, dir_a, dir_b, b_train,
                   turnstile, producerVars, callVars>>
    /\ UNCHANGED <<declared, reply, buffered, last_arrival, returned>>

\* A reader takes the string form of a constructed station (str / repr, lines
\* 80-91), between the driver's calls or in the middle of one.
Str(s) ==
    /\ Constructed(s)
    /\ shown' = [shown EXCEPT ![s] = Describe(s)]
    /\ UNCHANGED <<pc, args, stationVars, producerVars, callVars>>
    /\ UNCHANGED <<declared, reply, buffered, last_arrival, returned>>

\* ---------------------------------------------------------- specifications
\* Several producers constructed concurrently, from the simulation's rows.
NextCreate ==
    \E s \in Slots :
        \/ \E row \in StationRows : StationInitName(s, row)
        \/ EnsureChannelExists(s)
        \/ CreateTopic(s)
        \/ StationInitFields(s)

SpecCreate == Init /\ [][NextCreate]_vars

\* Station naming alone: two stations named with any names, in any order.
NameSlots == {1, 2}

NextNames == \E s \in NameSlots, row \in NameRows : StationInitName(s, row)

SpecNames == Init /\ [][NextNames]_vars

\* One station, from its construction to its close, under the simulation driver.
MainSlots == {1}

Next ==
    \E s \in MainSlots :
        \/ \E row \in StationRows : StationInitName(s, row)
        \/ EnsureChannelExists(s)
        \/ CreateTopic(s)
        \/ StationInitFields(s)
        \/ \E train \in Trains, p \in PrevStationIds, d \in PrevDirections :
              ArriveA(s, train, p, d)
        \/ \E train \in Trains, p \in PrevStationIds, d \in PrevDirections :
              ArriveB(s, train, p, d)
        \/ Run(s)
        \/ \E train \in Trains, st \in Statuses : SetStatus(train, st)
        \/ Close(s)
        \/ CloseTurnstile(s)
        \/ CloseProducer(s)
        \/ Deliver(s)

Spec == Init /\ [][Next]_vars

\* One station under the driver's arrivals, with a reader of its string form.
NextRead ==
    \E s \in MainSlots :
        \/ \E row \in StationRows : StationInitName(s, row)
        \/ EnsureChannelExists(s)
        \/ CreateTopic(s)
        \/ StationInitFields(s)
        \/ \E train \in Trains, p \in PrevStationIds, d \in PrevDirections :
              ArriveA(s, train, p, d)
        \/ \E train \in Trains, p \in PrevStationIds, d \in PrevDirections :
              ArriveB(s, train, p, d)
        \/ Run(s)
        \/ Str(s)

SpecRead == Init /\ [][NextRead]_vars

\* ------------------------------------------------------------------ claims
\* What a reader of the string form finds in the two train columns.
FieldA(text) == SubSeq(text, 67, 71)
FieldB(text) == SubSeq(text, 136, 140)

RECURSIVE TrimLeft(_)
TrimLeft(text) ==
    IF text # <<>> /\ Head(text) = " " THEN TrimLeft(Tail(text)) ELSE text
RECURSIVE TrimRight(_)
TrimRight(text) ==
    IF text # <<>> /\ text[Len(text)] = " "
    THEN TrimRight(SubSeq(text, 1, Len(text) - 1)) ELSE text
Trim(text) == TrimRight(TrimLeft(text))

T1 == Train(<<"T","1">>)
T2 == Train(<<"T","2">>)

\* C1: when arrive_a(T, ...) returns or raises, the string form shows T's train id
\* in direction A and the direction B column is what it was before the call;
\* arrive_b likewise with the directions exchanged.
C1_ArrivalFrame ==
    [][\A s \in Slots :
        (pc[s] = "run" /\ pc'[s] = "idle") =>
            IF call[s].direction = "a"
            THEN /\ Trim(FieldA(Describe(s)')) = call[s].train.train_id
                 /\ FieldB(Describe(s)') = FieldB(call[s].before)
            ELSE /\ Trim(FieldB(Describe(s)')) = call[s].train.train_id
                 /\ FieldA(Describe(s)') = FieldA(call[s].before)]_vars

\* C1 witness: both directions have seen an arrival, of different trains.
C1_Witness ==
    \E s \in Slots :
        /\ pc[s] = "idle" /\ Len(sent) = 2
        /\ a_train[s] = T1 /\ b_train[s] = T2
        /\ Trim(FieldA(Describe(s))) = <<"T","1">>
        /\ Trim(FieldB(Describe(s))) = <<"T","2">>

\* C2: when run is about to produce, the direction of the call already holds the
\* train of the call; and from a publish until the next arrival in its direction
\* the string form shows the published train in that direction.
C2_OccupancyBeforePublish ==
    \A s \in Slots :
        /\ pc[s] = "run" =>
              IF call[s].direction = "a"
              THEN a_train[s] = call[s].train
              ELSE b_train[s] = call[s].train
        /\ last_pub[s].a # PyNone =>
              Trim(FieldA(Describe(s))) = last_pub[s].a.train_id
        /\ last_pub[s].b # PyNone =>
              Trim(FieldB(Describe(s))) = last_pub[s].b.train_id

\* C2 witness: a second arrival in direction A is about to be produced; T1 was
\* published there before, and the direction already holds T2.
C2_Witness ==
    \E s \in Slots :
        /\ pc[s] = "run" /\ call[s].direction = "a" /\ call[s].train = T2
        /\ Len(sent) = 1
        /\ sent[1].value.direction = PyStr("a")
        /\ sent[1].value.train_id = PyStr(<<"T","1">>)
        /\ a_train[s] = T2

\* C3: an arrival call that returns has added exactly one message to the
\* station's topic, with station_id, train_id, direction, line, train_status
\* (as at the call), prev_station_id and prev_direction of the call; the
\* direction is the one whose train the call has set.
C3_OneArrivalEvent ==
    [][\A s \in Slots :
        (pc[s] = "run" /\ pc'[s] = "idle" /\ error'[s] = "none") =>
            /\ Len(sent') = Len(sent) + 1
            /\ SubSeq(sent', 1, Len(sent)) = sent
            /\ sent'[Len(sent')].topic = topic_name[s]
            /\ sent'[Len(sent')].value =
                  [station_id |-> station_id[s],
                   train_id |-> PyStr(call[s].train.train_id),
                   direction |-> PyStr(call[s].direction),
                   line |-> PyStr(color[s].name),
                   train_status |-> PyStr(call[s].status_at_call),
                   prev_station_id |-> call[s].prev_station_id,
                   prev_direction |-> call[s].prev_direction]
            /\ call[s].direction = "a" => a_train[s] = call[s].train
            /\ call[s].direction = "b" => b_train[s] = call[s].train]_vars

\* C3 witness: the arrival of T1 in direction "a" at station 41380 of the red
\* line, coming from 40380 in direction "b", has been published.
C3_Witness ==
    \E i \in 1..Len(sent) :
        sent[i].value =
            [station_id |-> PyInt(41380), train_id |-> PyStr(<<"T","1">>),
             direction |-> PyStr("a"), line |-> PyStr("RED"),
             train_status |-> PyStr("out_of_service"),
             prev_station_id |-> PyInt(40380), prev_direction |-> PyStr("b")]

\* Creation requests for one topic name that have reached the broker.
Requests(topic) ==
    Cardinality({i \in 1..Len(create_requests) : create_requests[i] = topic})

\* C4: however the constructions of the producers of one topic name interleave,
\* at most one creation request for the name reaches the broker, and exactly
\* one has reached it once none of them is still about to issue it.
C4_OneCreationRequest ==
    \A s \in Slots :
        pc[s] # "new" =>
            /\ Requests(topic_name[s]) <= 1
            /\ (\A o \in Slots :
                   topic_name[o] = topic_name[s] => pc[o] \in {"fields", "idle"})
               => Requests(topic_name[s]) = 1

\* C4 witness: two stations of one name are constructed, one request was made.
C4_Witness ==
    /\ pc[1] = "idle" /\ pc[2] = "idle"
    /\ name[1] = name[2]
    /\ Requests(topic_name[1]) = 1

\* C5: a close() whose turnstile close failed has gone on to the producer's
\* close, and raises the turnstile's failure.
C5_CloseAttemptsAll ==
    \A s \in Slots :
        (pc[s] = "idle" /\ close_trace[s] # <<>> /\ ~close_trace[s][1].ok) =>
            /\ Len(close_trace[s]) = 2
            /\ close_trace[s][2].step = "producer"
            /\ error[s] = "CloseError"

\* C6: within close() the turnstile's close comes before the producer's, and
\* the producer is never closed while the turnstile is open.
C6_TurnstileFirst ==
    \A s \in Slots :
        /\ producer[s] = "closed" => turnstile[s] = "closed"
        /\ pc[s] = "close_producer" =>
              turnstile[s] = "closed" /\ close_trace[s] = <<Step("turnstile", TRUE)>>
        /\ \A i \in 1..Len(close_trace[s]) :
              close_trace[s][i].step = "producer" =>
                  i = 2 /\ close_trace[s][1].step = "turnstile"

\* C6 witness: a close() has closed the turnstile and then the producer.
C6_Witness ==
    \E s \in Slots :
        /\ pc[s] = "idle"
        /\ turnstile[s] = "closed" /\ producer[s] = "closed"
        /\ close_trace[s] = <<Step("turnstile", TRUE), Step("producer", TRUE)>>

C8_InvalidNotSent ==
    [][\A s \in Slots :
        /\ (pc[s] = "run" /\ pc'[s] = "idle"
             /\ (call[s].prev_station_id = PyNone \/ call[s].prev_direction = PyNone))
           => error'[s] = "SchemaValidationError" /\ sent' = sent
        /\ \A i \in 1..Len(sent') :
              /\ sent'[i].value.prev_station_id # PyNone
              /\ sent'[i].value.prev_direction # PyNone]_vars

\* C8 witness: an arrival with no previous station was refused; the train is
\* noted and nothing was sent.
C8_Witness ==
    \E s \in Slots :
        /\ pc[s] = "idle" /\ error[s] = "SchemaValidationError"
        /\ a_train[s] = T1 /\ sent = <<>> /\ calls = 1

\* The part of a topic name between the fixed prefix and the fixed suffix.
NormalizedPart(topic) ==
    SubSeq(topic, Len(TopicPrefix) + 1, Len(topic) - Len(TopicSuffix))

\* C9: the normalized part of a station's topic name holds no '/', ' ', '-' or
\* apostrophe, and stations of the same name have the same topic name, whenever
\* and in whatever order they were constructed.
C9_LegalAndPure ==
    \A s \in Slots :
        pc[s] # "new" =>
            /\ \A i \in 1..Len(NormalizedPart(topic_name[s])) :
                  NormalizedPart(topic_name[s])[i] \notin {"/", " ", "-", "'"}
            /\ \A o \in Slots :
                  (pc[o] # "new" /\ name[o] = name[s]) => topic_name[o] = topic_name[s]

\* C9 witness: two stations carry the name Belmont-Wilson's/North.
C9_Witness ==
    /\ pc[1] # "new" /\ pc[2] # "new"
    /\ name[1] = ExampleName /\ name[2] = ExampleName

\* The reference normalization, one character at a time.
RefChar(c) ==
    IF c = "/" THEN <<"_","a","n","d","_">>
    ELSE IF c = " " \/ c = "-" THEN <<"_">>
    ELSE IF c = "'" THEN <<>>
    ELSE <<LowerChar(c)>>

RECURSIVE RefNorm(_)
RefNorm(n) == IF n = <<>> THEN <<>> ELSE RefChar(Head(n)) \o RefNorm(Tail(n))

\* C10: a station's topic name is org.chicago.cta.station.<n>.arrival.v1 with <n>
\* the reference normalization of its name; Belmont-Wilson's/North gives
\* belmont_wilsons_and_north.
C10_TopicName ==
    \A s \in Slots :
        pc[s] # "new" =>
            /\ topic_name[s] = TopicPrefix \o RefNorm(name[s]) \o TopicSuffix
            /\ name[s] = ExampleName => NormalizedPart(topic_name[s]) = ExampleSuffix

\* C10 witness: a station named Belmont-Wilson's/North has its topic name.
C10_Witness ==
    \E s \in Slots :
        /\ pc[s] # "new" /\ name[s] = ExampleName
        /\ NormalizedPart(topic_name[s]) = ExampleSuffix

\* C11 as stated: stations of different names never have the same topic name.
C11_NoCollision ==
    \A s, o \in Slots :
        (pc[s] # "new" /\ pc[o] # "new" /\ name[s] # name[o])
            => topic_name[s] # topic_name[o]

\* C11, amended: two stations have the same topic name exactly when their names
\* have the same normalization; names that differ only in letter case, in ' '
\* against '-' against '_', in '/' against '_and_' or in apostrophes collide.
C11_CollideIffSameNormalization ==
    \A s, o \in Slots :
        (pc[s] # "new" /\ pc[o] # "new") =>
            (topic_name[s] = topic_name[o] <=> RefNorm(name[s]) = RefNorm(name[o]))

\* C11 witness: the stations named "-" and " " have one topic name.
C11_Witness ==
    /\ pc[1] # "new" /\ pc[2] # "new"
    /\ name[1] = <<"-">> /\ name[2] = <<" ">>
    /\ topic_name[1] = topic_name[2]

\* C12: the message run is about to produce, and every message a station has
\* sent, carries the key schema and the value schema its producer was declared
\* with at construction.
C12_DeclaredSchemas ==
    \A s \in Slots :
        /\ pc[s] = "run" =>
              /\ ArrivalMessage(s).key_schema = declared[s].key_schema
              /\ ArrivalMessage(s).value_schema = declared[s].value_schema
        /\ Constructed(s) =>
              \A i \in 1..Len(sent) :
                  sent[i].topic = topic_name[s] =>
                      /\ sent[i].key_schema = declared[s].key_schema
                      /\ sent[i].value_schema = declared[s].value_schema

\* C12 witness: arrivals in both directions were sent by a declared producer.
C12_Witness ==
    \E s \in Slots :
        /\ Constructed(s) /\ declared[s] # NoSchemas
        /\ Len(sent) = 2
        /\ sent[1].value.direction # sent[2].value.direction

\* C13: a constructed station's topic is in the registry and its one creation
\* request has reached the broker, before its first publish and after any
\* number of them: no publish checks or creates the topic again.
C13_EnsuredOnceBeforePublish ==
    /\ \A s \in Slots :
          (pc[s] = "fields" \/ Constructed(s)) =>
              /\ topic_name[s] \in existing_topics
              /\ Requests(topic_name[s]) = 1
    /\ \A i \in 1..Len(sent) :
          /\ sent[i].topic \in existing_topics
          /\ Requests(sent[i].topic) = 1
    /\ Len(create_requests) <= 1

\* C13 witness: two messages were sent after the one creation request.
C13_Witness ==
    /\ Len(sent) = 2
    /\ Requests(sent[2].topic) = 1
    /\ Len(create_requests) = 1

\* C14: when close() is left, by return or by an exception, the station's
\* client is released, and when it returns nothing is left in the buffer.
C14_CloseFlushesAndReleases ==
    [][\A s \in Slots :
        (pc[s] \in {"close_turnstile", "close_producer"} /\ pc'[s] = "idle") =>
            /\ producer'[s] = "closed"
            /\ error'[s] = "none" => buffered'[s] = 0]_vars

\* C15: both directions are empty after construction; a direction changes only
\* in the step that enters its own arrive call, to the train of the call; an
\* occupied direction never becomes empty again.
C15_OccupancyForward ==
    [][\A s \in Slots :
        /\ (pc[s] = "fields" /\ pc'[s] = "idle") =>
              a_train'[s] = PyNone /\ b_train'[s] = PyNone
        /\ (pc[s] # "fields" /\ a_train'[s] # a_train[s]) =>
              /\ pc[s] = "idle" /\ pc'[s] = "run"
              /\ call'[s].direction = "a" /\ a_train'[s] = call'[s].train
        /\ (pc[s] # "fields" /\ b_train'[s] # b_train[s]) =>
              /\ pc[s] = "idle" /\ pc'[s] = "run"
              /\ call'[s].direction = "b" /\ b_train'[s] = call'[s].train
        /\ a_train[s] # PyNone => a_train'[s] # PyNone
        /\ b_train[s] # PyNone => b_train'[s] # PyNone]_vars

\* C15 witness: T2 has overwritten T1 in direction A, direction B is empty, and
\* the station has been closed since.
C15_Witness ==
    \E s \in Slots :
        /\ pc[s] = "idle" /\ producer[s] = "closed" /\ error[s] = "none"
        /\ a_train[s] = T2 /\ b_train[s] = PyNone
        /\ Len(sent) = 2
        /\ sent[1].value.train_id = PyStr(<<"T","1">>)
        /\ sent[1].value.direction = PyStr("a")

\* C16: taking the string form changes nothing of the station, the producer or
\* the call in progress and sends nothing; it shows, per direction, the id of
\* the held train or "---"; and it can be taken in every state of a constructed
\* station, also in the middle of an arrival.
C16_StrPure ==
    [][\A s \in Slots :
        /\ shown'[s] # shown[s] =>
              /\ UNCHANGED <<pc, args, stationVars, producerVars, callVars>>
              /\ UNCHANGED <<declared, reply, buffered, last_arrival, returned>>
              /\ Trim(FieldA(shown'[s])) =
                    IF a_train[s] = PyNone THEN <<"-","-","-">> ELSE a_train[s].train_id
              /\ Trim(FieldB(shown'[s])) =
                    IF b_train[s] = PyNone THEN <<"-","-","-">> ELSE b_train[s].train_id
        /\ Constructed(s) => ENABLED Str(s)]_vars

\* C16 witness: the string form was taken in the middle of the first arrival:
\* it shows T1 in direction A and "---" in direction B.
C16_Witness ==
    \E s \in Slots :
        /\ pc[s] = "run" /\ call[s].train = T1 /\ call[s].direction = "a"
        /\ sent = <<>>
        /\ shown[s] # <<>>
        /\ Trim(FieldA(shown[s])) = <<"T","1">>
        /\ Trim(FieldB(shown[s])) = <<"-","-","-">>

\* C17: a rejected creation request ends the construction with
\* ChannelCreationError and no station; "created" and "already exists" alike
\* leave the constructor without error and about to set the fields; in no case
\* is a second request made for the name.
C17_CreationOutcome ==
    \A s \in Slots :
        /\ reply[s] = "rejected" <=> pc[s] = "failed"
        /\ error[s] = "ChannelCreationError" <=> pc[s] = "failed"
        /\ pc[s] = "failed" =>
              /\ producer[s] = "none" /\ turnstile[s] = "none"
              /\ station_id[s] = PyNone
              /\ ~ ENABLED CreateTopic(s)
        /\ reply[s] \in {"created", "already_exists"} =>
              /\ pc[s] = "fields" /\ error[s] = "none"
              /\ ENABLED StationInitFields(s)
        /\ pc[s] # "new" => Requests(topic_name[s]) <= 1

\* C17 witness: one construction was rejected, another was told that its topic
\* exists already and goes on.
C17_Witness ==
    \E s, o \in Slots :
        /\ pc[s] = "failed" /\ error[s] = "ChannelCreationError"
        /\ pc[o] = "fields" /\ reply[o] = "already_exists"

\* C18: when run raises, nothing was sent, the direction of the call holds the
\* train of the call, and the other direction is what it was before the call.
C18_NoRollback ==
    [][\A s \in Slots :
        (pc[s] = "run" /\ pc'[s] = "idle" /\ error'[s] # "none") =>
            /\ sent' = sent
            /\ IF call[s].direction = "a"
               THEN /\ a_train'[s] = call[s].train
                    /\ FieldB(Describe(s)') = FieldB(call[s].before)
               ELSE /\ b_train'[s] = call[s].train
                    /\ FieldA(Describe(s)') = FieldA(call[s].before)]_vars

\* C18 witness: arrive_a(T1) was sent, arrive_b(T2) then failed its schema: B
\* holds T2, A still T1, and one message was sent.
C18_Witness ==
    \E s \in Slots :
        /\ pc[s] = "idle" /\ error[s] = "SchemaValidationError"
        /\ a_train[s] = T1 /\ b_train[s] = T2
        /\ calls = 2 /\ Len(sent) = 1
        /\ sent[1].value.direction = PyStr("a")

\* C19: each direction holds the train of the last arrive call of that
\* direction, whatever calls of the other direction came in between; between
\* calls, as many messages were sent as arrival calls have returned.
C19_ArrivalsCommute ==
    \A s \in Slots :
        Constructed(s) =>
            /\ a_train[s] = last_arrival[s].a
            /\ b_train[s] = last_arrival[s].b
            /\ pc[s] = "idle" => Len(sent) = returned

\* C19 witness: arrive_b(T2) and then arrive_a(T1) have both returned.
C19_Witness ==
    \E s \in Slots :
        /\ pc[s] = "idle" /\ calls = 2 /\ returned = 2
        /\ a_train[s] = T1 /\ b_train[s] = T2
        /\ sent[1].value.direction = PyStr("b")
        /\ sent[2].value.direction = PyStr("a")

====
